---- MODULE Spec2Model ----
(***************************************************************************)
(* The RobotBuilder viewer (RoboraDev/3DBuilder): URDF loading, hover      *)
(* highlight, joint drag and camera arbitration, as a state machine.       *)
(*                                                                         *)
(* Numbers: joint values and limits are in fixed-point units of 0.01 rad,  *)
(* so dx * sensitivity (0.01) is dx units.  A material colour is one       *)
(* channel in half-steps of the 8-bit scale (colour c stands for c/510);    *)
(* a hex string is the 8-bit level 0..255.  An optional value (T | null)   *)
(* is a sequence: << >> for null, <<v>> for v.                             *)
(***************************************************************************)
EXTENDS Integers, Sequences, FiniteSets, TLC

\* ---------------------------------------------------------------- bounds
\* Loads started over a run (the mount's load included).
MaxLoads == 2
\* Objects of a drawn scene graph handed to findURDFJointFromObject.
MaxNodes == 3
\* Renders of the component over a run.
MaxRenders == 5

\* ------------------------------------------------------- inputs, scene
Null == << >>
Some(v) == <<v>>

\* The values the url prop takes.
Urls == {"u1", "u2"}
\* clientX of the pointer events.
Xs == {0, 250}
\* World directions the camera looks along (camera.getWorldDirection).
Forwards == {<<0, 0, -1>>, <<0, 0, 1>>, <<1, 0, 0>>}

\* The scene graph of a loaded robot: meshes under links under joints.
Parts == {"base", "arm", "leg", "foot"}
Joints == {"j_arm", "j_leg", "j_foot"}
Nodes == {"robot", "base_link", "arm_link", "leg_link", "foot_link"} \cup Joints \cup Parts

\* Object3D.parent; the root has none.
parent(n) ==
  CASE n = "robot" -> Null
    [] n = "base_link" -> Some("robot")
    [] n = "base" -> Some("base_link")
    [] n = "j_arm" -> Some("base_link")
    [] n = "arm_link" -> Some("j_arm")
    [] n = "arm" -> Some("arm_link")
    [] n = "j_leg" -> Some("arm_link")
    [] n = "leg_link" -> Some("j_leg")
    [] n = "leg" -> Some("leg_link")
    [] n = "j_foot" -> Some("leg_link")
    [] n = "foot_link" -> Some("j_foot")
    [] n = "foot" -> Some("foot_link")

\* Object3D.type
type(n) ==
  IF n \in Joints THEN "URDFJoint"
  ELSE IF n \in Parts THEN "Mesh"
  ELSE IF n = "robot" THEN "URDFRobot"
  ELSE "URDFLink"

\* joint.jointValue.length: a fixed joint has no value.
Dof(j) == IF j \in {"j_arm", "j_leg"} THEN 1 ELSE 0

\* joint.limit as the URDF file of url u gives it (u2's leg limits are inverted).
Limit(u, j) ==
  CASE j = "j_arm" /\ u = "u1" -> [lower |-> -100, upper |-> 100]
    [] j = "j_arm" /\ u = "u2" -> [lower |-> 100, upper |-> 150]
    [] j = "j_leg" /\ u = "u1" -> [lower |-> 50, upper |-> 150]
    [] j = "j_leg" /\ u = "u2" -> [lower |-> 100, upper |-> -100]
    [] OTHER -> [lower |-> 0, upper |-> 0]

\* joint.jointValue as the loader hands the robot over.
LoaderValue(u, j) ==
  IF Dof(j) = 0 THEN << >>
  ELSE IF j = "j_arm" /\ u = "u2" THEN <<150>>
  ELSE <<0>>

\* joint.axis in world space (axis.applyQuaternion(joint.quaternion)).
Axis(j) == IF j = "j_arm" THEN <<0, 0, 1>> ELSE <<1, 0, 0>>

\* material.color of each mesh as loaded: one grey for the body, another for
\* the arm; an odd value is a colour off the 8-bit grid.
MeshColor(u, p) == IF p = "arm" THEN 121 ELSE 140

\* moveableColor as a hex level, and the material colour it sets.
moveableHex == 200

\* --------------------------------------------------------- pure helpers
Min(a, b) == IF a < b THEN a ELSE b
Max(a, b) == IF a > b THEN a ELSE b

\* clamp with the upper bound forgotten.
clampNoUpper(value, lo, hi) == Max(lo, value)

\* THREE.MathUtils.clamp(value, min, max) = max(min, min(max, value))
clamp(value, lo, hi) == Max(lo, Min(hi, value))

\* x | 0 on a value in units of 0.01: truncation toward zero to a whole number.
ToInt32(v) == IF v >= 0 THEN (v \div 100) * 100 ELSE -(((-v) \div 100) * 100)

\* material.color.getHexString(): the colour rounded to its 8-bit level.
getHexString(c) == (c + 1) \div 2

\* material.color.set(v): a hex string sets the colour, null leaves it alone.
colorSet(c, v) == IF v = Null THEN c ELSE 2 * v[1]

Sign(x) == IF x > 0 THEN 1 ELSE IF x < 0 THEN -1 ELSE 0
Dot(a, b) == a[1] * b[1] + a[2] * b[2] + a[3] * b[3]

\* -Math.sign(axis.dot(forward)) with no fallback.
getRotationDirectionNoFallback(j, forward) == -Sign(Dot(Axis(j), forward))

\* -Math.sign(axis.dot(forward)) || 1
getRotationDirection(j, forward) ==
  LET s == -Sign(Dot(Axis(j), forward)) IN IF s = 0 THEN 1 ELSE s

RECURSIVE walkUp(_)
walkUp(current) ==
  IF current = Null THEN Null
  ELSE IF type(current[1]) = "URDFJoint" THEN current
  ELSE walkUp(parent(current[1]))

\* The nearest URDFJoint on the parent chain of startObj, itself included.
findURDFJointFromObject(startObj) == walkUp(Some(startObj))

\* ----------------------------------------------------------------- state
VARIABLES
  url,                \* the url prop
  pending,            \* loader.load calls whose callback has not run
  started,            \* loads started so far
  robot,              \* useState robot: Null or the installed URDFRobot
  selectedJoint,      \* useState: Null or a joint name
  selectedMesh,       \* useState: Null or a mesh [part, installed]
  selectedJointColor, \* useRef: Null or a hex string
  isDragging,         \* useState
  isRotating,         \* useState
  lastMouseX,         \* useRef
  hovered,            \* the mesh under the pointer, as the canvas tracks it
  errors,             \* console.error calls made
  gesture,            \* history: the hover or drag gesture under way
  midDragLoads,       \* history: pending loads whose url change came mid-drag
  stroke,             \* history: the drag under way, from its pointer-down
  find,               \* a call of findURDFJointFromObject, loop step by step
  life                \* the component's life: renders and window listeners

vars == <<url, pending, started, robot, selectedJoint, selectedMesh,
          selectedJointColor, isDragging, isRotating, lastMouseX, hovered, errors,
          gesture, midDragLoads, stroke, find, life>>

\* The state kept by the separate developments of the drag arithmetic, of
\* findURDFJointFromObject and of the listener life cycle.
aux == <<stroke, find, life>>

program == <<url, pending, started, robot, selectedJoint, selectedMesh,
             selectedJointColor, isDragging, isRotating, lastMouseX, hovered, errors>>

interaction == <<selectedJoint, selectedMesh, selectedJointColor, isDragging,
                 isRotating, lastMouseX>>

\* urdf.setJointValue(name, v): stores v in a joint that has a value.
setJointValue(r, name, v) ==
  IF Len(r.joints[name]) = 0 THEN r
  ELSE [r EXCEPT !.joints[name] = <<v>>]

\* The success callback's forEach: every joint set to clamp(jointValue[0] | 0).
RECURSIVE clampJoints(_, _)
clampJoints(r, todo) ==
  IF todo = {} THEN r
  ELSE LET jointName == CHOOSE j \in todo : TRUE
           jv == r.joints[jointName]
           jointValue == ToInt32(IF Len(jv) = 0 THEN 0 ELSE jv[1])
           lim == Limit(r.src, jointName)
           clamped == clamp(jointValue, lim.lower, lim.upper)
       IN clampJoints(setJointValue(r, jointName, clamped), todo \ {jointName})

\* The URDFRobot the loader builds for load l.
Parsed(l) ==
  [src |-> l.url,
   joints |-> [j \in Joints |-> LoaderValue(l.url, j)],
   color |-> [p \in Parts |-> MeshColor(l.url, p)]]

NoHover == [part |-> "", orig |-> 0]

\* No drag on record; no call of findURDFJointFromObject; no life on record.
NoStroke == [active |-> FALSE, exact |-> FALSE, x0 |-> 0, v0 |-> 0, sign |-> 0,
             x |-> 0, dot |-> << >>, dir |-> 0, want |-> << >>, steps |-> 0]
NoFind == << >>
NoLife == << >>
GIdle == [phase |-> "idle", cur |-> NoHover, prev |-> NoHover]

Init ==
  /\ url = "u1"
  /\ pending = {[id |-> 1, url |-> url]}
  /\ started = 1
  /\ robot = Null
  /\ selectedJoint = Null
  /\ selectedMesh = Null
  /\ selectedJointColor = Null
  /\ isDragging = FALSE
  /\ isRotating = FALSE
  /\ lastMouseX = 0
  /\ hovered = Null
  /\ errors = 0
  /\ gesture = GIdle
  /\ midDragLoads = {}
  /\ stroke = NoStroke
  /\ find = NoFind
  /\ life = NoLife

\* The url prop changes: the effect runs again and starts a load.
UrlChange(u) ==
  /\ u # url
  /\ started < MaxLoads
  /\ url' = u
  /\ started' = started + 1
  /\ pending' = pending \cup {[id |-> started + 1, url |-> u]}
  /\ UNCHANGED <<robot, interaction, hovered, errors>>

\* loader.load's success callback.
LoadSuccess(l) ==
  /\ l \in pending
  /\ pending' = pending \ {l}
  /\ robot' = Some(clampJoints(Parsed(l), Joints))
  /\ hovered' = Null
  /\ selectedMesh' = IF selectedMesh = Null THEN Null
                     ELSE Some([selectedMesh[1] EXCEPT !.installed = FALSE])
  /\ UNCHANGED <<url, started, selectedJoint, selectedJointColor, isDragging,
                 isRotating, lastMouseX, errors>>

\* loader.load's error callback.
LoadError(l) ==
  /\ l \in pending
  /\ pending' = pending \ {l}
  /\ errors' = errors + 1
  /\ UNCHANGED <<url, started, robot, interaction, hovered>>

\* A mesh of the installed robot, as an event's e.object.  A mesh is a part of
\* one URDFRobot object; installed says whether that object is the one in
\* robot (a later load's robot is another object with meshes of its own).
Mesh(p) == [part |-> p, installed |-> TRUE]

\* onPointerOver capturing the colour after it has set the highlight.
onPointerOverCaptureAfterSet(p) ==
  /\ robot # Null
  /\ hovered = Null
  /\ hovered' = Some(p)
  /\ IF ~isDragging /\ ~isRotating
       THEN LET joint == findURDFJointFromObject(p) IN
              IF joint = Null
                THEN UNCHANGED <<robot, selectedJointColor>>
                ELSE /\ robot' = IF Dof(joint[1]) # 0
                                   THEN Some([robot[1] EXCEPT !.color[p] =
                                                colorSet(@, Some(moveableHex))])
                                   ELSE robot
                     /\ selectedJointColor' = Some(getHexString(robot'[1].color[p]))
       ELSE UNCHANGED <<robot, selectedJointColor>>
  /\ UNCHANGED <<url, pending, started, selectedJoint, selectedMesh, isDragging,
                 isRotating, lastMouseX, errors>>

\* onPointerOver testing only !isDragging.
onPointerOverIgnoresRotating(p) ==
  /\ robot # Null
  /\ hovered = Null
  /\ hovered' = Some(p)
  /\ IF ~isDragging
       THEN LET joint == findURDFJointFromObject(p) IN
              IF joint = Null
                THEN UNCHANGED <<robot, selectedJointColor>>
                ELSE /\ selectedJointColor' = Some(getHexString(robot[1].color[p]))
                     /\ robot' = IF Dof(joint[1]) # 0
                                   THEN Some([robot[1] EXCEPT !.color[p] =
                                                colorSet(@, Some(moveableHex))])
                                   ELSE robot
       ELSE UNCHANGED <<robot, selectedJointColor>>
  /\ UNCHANGED <<url, pending, started, selectedJoint, selectedMesh, isDragging,
                 isRotating, lastMouseX, errors>>

onPointerOver(p) ==
  /\ robot # Null
  /\ hovered = Null
  /\ hovered' = Some(p)
  /\ IF ~isDragging /\ ~isRotating
       THEN LET joint == findURDFJointFromObject(p) IN
              IF joint = Null
                THEN UNCHANGED <<robot, selectedJointColor>>
                ELSE /\ selectedJointColor' = Some(getHexString(robot[1].color[p]))
                     /\ robot' = IF Dof(joint[1]) # 0
                                   THEN Some([robot[1] EXCEPT !.color[p] =
                                                colorSet(@, Some(moveableHex))])
                                   ELSE robot
       ELSE UNCHANGED <<robot, selectedJointColor>>
  /\ UNCHANGED <<url, pending, started, selectedJoint, selectedMesh, isDragging,
                 isRotating, lastMouseX, errors>>

\* onPointerOut without the test of isDragging.
onPointerOutIgnoresDragging(p) ==
  /\ robot # Null
  /\ hovered = Some(p)
  /\ hovered' = Null
  /\ robot' = Some([robot[1] EXCEPT !.color[p] = colorSet(@, selectedJointColor)])
  /\ selectedJointColor' = Null
  /\ UNCHANGED <<url, pending, started, selectedJoint, selectedMesh, isDragging,
                 isRotating, lastMouseX, errors>>

onPointerOut(p) ==
  /\ robot # Null
  /\ hovered = Some(p)
  /\ hovered' = Null
  /\ IF ~isDragging
       THEN /\ robot' = Some([robot[1] EXCEPT !.color[p] =
                                colorSet(@, selectedJointColor)])
            /\ selectedJointColor' = Null
       ELSE UNCHANGED <<robot, selectedJointColor>>
  /\ UNCHANGED <<url, pending, started, selectedJoint, selectedMesh, isDragging,
                 isRotating, lastMouseX, errors>>

\* handlePointerDown without setSelectedMesh(e.object).
handlePointerDownNoMesh(p, clientX) ==
  /\ robot # Null
  /\ hovered = Some(p)
  /\ LET joint == findURDFJointFromObject(p) IN
       IF joint # Null /\ Dof(joint[1]) # 0
         THEN /\ selectedJoint' = joint
              /\ isDragging' = TRUE
              /\ lastMouseX' = clientX
         ELSE UNCHANGED <<selectedJoint, isDragging, lastMouseX>>
  /\ UNCHANGED <<url, pending, started, robot, selectedMesh, selectedJointColor,
                 isRotating, hovered, errors>>

\* handlePointerDown with no test of the joint at all.
handlePointerDownUnguarded(p, clientX) ==
  /\ robot # Null
  /\ hovered = Some(p)
  /\ selectedJoint' = findURDFJointFromObject(p)
  /\ selectedMesh' = Some(Mesh(p))
  /\ isDragging' = TRUE
  /\ lastMouseX' = clientX
  /\ UNCHANGED <<url, pending, started, robot, selectedJointColor, isRotating,
                 hovered, errors>>

\* handlePointerDown testing only that a joint was found (if (joint)).
handlePointerDownAnyJoint(p, clientX) ==
  /\ robot # Null
  /\ hovered = Some(p)
  /\ LET joint == findURDFJointFromObject(p) IN
       IF joint # Null
         THEN /\ selectedJoint' = joint
              /\ selectedMesh' = Some(Mesh(p))
              /\ isDragging' = TRUE
              /\ lastMouseX' = clientX
         ELSE UNCHANGED <<selectedJoint, selectedMesh, isDragging, lastMouseX>>
  /\ UNCHANGED <<url, pending, started, robot, selectedJointColor, isRotating,
                 hovered, errors>>

handlePointerDown(p, clientX) ==
  /\ robot # Null
  /\ hovered = Some(p)
  /\ LET joint == findURDFJointFromObject(p) IN
       IF joint # Null /\ Dof(joint[1]) # 0
         THEN /\ selectedJoint' = joint
              /\ selectedMesh' = Some(Mesh(p))
              /\ isDragging' = TRUE
              /\ lastMouseX' = clientX
         ELSE UNCHANGED <<selectedJoint, selectedMesh, isDragging, lastMouseX>>
  /\ UNCHANGED <<url, pending, started, robot, selectedJointColor, isRotating,
                 hovered, errors>>

\* handlePointerMove turning every joint that has a value, not the selected one.
RECURSIVE turnJoints(_, _, _)
turnJoints(r, todo, delta) ==
  IF todo = {} THEN r
  ELSE LET name == CHOOSE j \in todo : TRUE
           jv == r.joints[name]
           lim == Limit(r.src, name)
           clamped == clamp((IF Len(jv) = 0 THEN 0 ELSE jv[1]) + delta, lim.lower, lim.upper)
       IN turnJoints(setJointValue(r, name, clamped), todo \ {name}, delta)

handlePointerMoveAllJoints(clientX, forward) ==
  /\ IF robot # Null /\ isDragging /\ selectedJoint # Null
       THEN LET dx == clientX - lastMouseX
                direction == getRotationDirection(selectedJoint[1], forward)
            IN /\ lastMouseX' = clientX
               /\ robot' = Some(turnJoints(robot[1], Joints, dx * direction))
       ELSE UNCHANGED <<robot, lastMouseX>>
  /\ UNCHANGED <<url, pending, started, selectedJoint, selectedMesh,
                 selectedJointColor, isDragging, isRotating, hovered, errors>>

\* handlePointerMove leaving the direction out of the new value.
handlePointerMoveNoDirection(clientX, forward) ==
  /\ IF robot # Null /\ isDragging /\ selectedJoint # Null
       THEN LET name == selectedJoint[1]
                jv == robot[1].joints[name]
                dx == clientX - lastMouseX
                currentValue == IF Len(jv) = 0 THEN 0 ELSE jv[1]
                newValue == currentValue + dx
                lim == Limit(robot[1].src, name)
                clamped == clamp(newValue, lim.lower, lim.upper)
            IN /\ lastMouseX' = clientX
               /\ robot' = Some(setJointValue(robot[1], name, clamped))
       ELSE UNCHANGED <<robot, lastMouseX>>
  /\ UNCHANGED <<url, pending, started, selectedJoint, selectedMesh,
                 selectedJointColor, isDragging, isRotating, hovered, errors>>

\* handlePointerMove without lastMouseX.current = e.clientX.
handlePointerMoveKeepsAnchor(clientX, forward) ==
  /\ IF robot # Null /\ isDragging /\ selectedJoint # Null
       THEN LET name == selectedJoint[1]
                jv == robot[1].joints[name]
                dx == clientX - lastMouseX
                currentValue == IF Len(jv) = 0 THEN 0 ELSE jv[1]
                direction == getRotationDirection(name, forward)
                newValue == currentValue + dx * direction
                lim == Limit(robot[1].src, name)
                clamped == clamp(newValue, lim.lower, lim.upper)
            IN /\ UNCHANGED lastMouseX
               /\ robot' = Some(setJointValue(robot[1], name, clamped))
       ELSE UNCHANGED <<robot, lastMouseX>>
  /\ UNCHANGED <<url, pending, started, selectedJoint, selectedMesh,
                 selectedJointColor, isDragging, isRotating, hovered, errors>>

handlePointerMove(clientX, forward) ==
  /\ IF robot # Null /\ isDragging /\ selectedJoint # Null
       THEN LET name == selectedJoint[1]
                jv == robot[1].joints[name]
                dx == clientX - lastMouseX
                currentValue == IF Len(jv) = 0 THEN 0 ELSE jv[1]
                direction == getRotationDirection(name, forward)
                newValue == currentValue + dx * direction
                lim == Limit(robot[1].src, name)
                clamped == clamp(newValue, lim.lower, lim.upper)
            IN /\ lastMouseX' = clientX
               /\ robot' = Some(setJointValue(robot[1], name, clamped))
       ELSE UNCHANGED <<robot, lastMouseX>>
  /\ UNCHANGED <<url, pending, started, selectedJoint, selectedMesh,
                 selectedJointColor, isDragging, isRotating, hovered, errors>>

\* handlePointerUp that clears the state without setting the colour back.
handlePointerUpNoRestore ==
  /\ IF selectedMesh # Null
       THEN /\ selectedJointColor' = Null
            /\ isDragging' = FALSE
            /\ selectedJoint' = Null
            /\ selectedMesh' = Null
       ELSE UNCHANGED <<selectedJointColor, isDragging, selectedJoint, selectedMesh>>
  /\ UNCHANGED <<url, pending, started, robot, isRotating, lastMouseX, hovered,
                 errors>>

\* handlePointerUp with no test of selectedMesh.
handlePointerUpUnguarded ==
  /\ robot' = IF robot # Null /\ selectedMesh # Null /\ selectedMesh[1].installed
                 THEN Some([robot[1] EXCEPT !.color[selectedMesh[1].part] =
                              colorSet(@, selectedJointColor)])
                 ELSE robot
  /\ selectedJointColor' = Null
  /\ isDragging' = FALSE
  /\ selectedJoint' = Null
  /\ selectedMesh' = Null
  /\ UNCHANGED <<url, pending, started, isRotating, lastMouseX, hovered, errors>>

\* handlePointerUp without setSelectedJoint(null).
handlePointerUpKeepsJoint ==
  /\ IF selectedMesh # Null
       THEN /\ robot' = IF robot # Null /\ selectedMesh[1].installed
                          THEN Some([robot[1] EXCEPT !.color[selectedMesh[1].part] =
                                       colorSet(@, selectedJointColor)])
                          ELSE robot
            /\ selectedJointColor' = Null
            /\ isDragging' = FALSE
            /\ selectedMesh' = Null
       ELSE UNCHANGED <<robot, selectedJointColor, isDragging, selectedMesh>>
  /\ UNCHANGED <<url, pending, started, selectedJoint, isRotating, lastMouseX,
                 hovered, errors>>

\* handlePointerUp without setIsDragging(false).
handlePointerUpKeepsDragging ==
  /\ IF selectedMesh # Null
       THEN /\ robot' = IF robot # Null /\ selectedMesh[1].installed
                          THEN Some([robot[1] EXCEPT !.color[selectedMesh[1].part] =
                                       colorSet(@, selectedJointColor)])
                          ELSE robot
            /\ selectedJointColor' = Null
            /\ selectedJoint' = Null
            /\ selectedMesh' = Null
       ELSE UNCHANGED <<robot, selectedJointColor, selectedJoint, selectedMesh>>
  /\ UNCHANGED <<url, pending, started, isDragging, isRotating, lastMouseX,
                 hovered, errors>>

handlePointerUp ==
  /\ IF selectedMesh # Null
       THEN /\ robot' = IF robot # Null /\ selectedMesh[1].installed
                          THEN Some([robot[1] EXCEPT !.color[selectedMesh[1].part] =
                                       colorSet(@, selectedJointColor)])
                          ELSE robot
            /\ selectedJointColor' = Null
            /\ isDragging' = FALSE
            /\ selectedJoint' = Null
            /\ selectedMesh' = Null
       ELSE UNCHANGED <<robot, selectedJointColor, isDragging, selectedJoint,
                        selectedMesh>>
  /\ UNCHANGED <<url, pending, started, isRotating, lastMouseX, hovered, errors>>

\* OrbitControls onStart / onEnd.
onStart ==
  /\ isRotating' = TRUE
  /\ UNCHANGED <<url, pending, started, robot, selectedJoint, selectedMesh,
                 selectedJointColor, isDragging, lastMouseX, hovered, errors>>

onEnd ==
  /\ isRotating' = FALSE
  /\ UNCHANGED <<url, pending, started, robot, selectedJoint, selectedMesh,
                 selectedJointColor, isDragging, lastMouseX, hovered, errors>>

\* OrbitControls enableRotate prop.
enableRotate == ~isDragging

\* ------------------------------------------------------------- history
\* The colour a part shows, as the hex string the code reads it as.
Displayed(p) == getHexString(robot[1].color[p])

\* The part hangs under a joint that has a value.
Movable(p) ==
  LET joint == findURDFJointFromObject(p) IN joint # Null /\ Dof(joint[1]) # 0

\* gesture after the event ev on part p, from the state the event arrives in.
\*   hover    a pointer-over in the idle state captured cur.orig from cur.part
\*   exited   that hover's pointer-out followed; prev is the hover before it
\*   drag     a pointer-down on cur.part followed the hover
\*   released the pointer-up of that drag followed
\* Window mouse-moves and mouse-ups keep a hover going; anything outside the
\* gesture (camera, loads, a second pointer-down) ends the record.
GestureAfter(ev, p) ==
  CASE ev = "over" ->
         IF ~isDragging /\ ~isRotating /\ Movable(p)
           THEN [phase |-> "hover",
                 cur |-> [part |-> p, orig |-> Displayed(p)],
                 prev |-> IF gesture.phase = "exited" THEN gesture.cur ELSE NoHover]
           ELSE IF gesture.phase = "drag" THEN gesture ELSE GIdle
    [] ev = "out" ->
         IF gesture.phase = "hover" /\ p = gesture.cur.part
           THEN [gesture EXCEPT !.phase = "exited"]
           ELSE IF gesture.phase = "drag" THEN gesture ELSE GIdle
    [] ev = "down" ->
         IF gesture.phase = "hover" /\ p = gesture.cur.part
           THEN [phase |-> "drag", cur |-> gesture.cur, prev |-> NoHover]
           ELSE GIdle
    [] ev = "move" ->
         IF gesture.phase \in {"hover", "exited", "drag"} THEN gesture ELSE GIdle
    [] ev = "up" ->
         IF gesture.phase = "drag" THEN [gesture EXCEPT !.phase = "released"]
         ELSE IF gesture.phase \in {"hover", "exited"} THEN gesture
         ELSE GIdle
    [] OTHER -> GIdle

Track(ev, p) ==
  /\ gesture' = GestureAfter(ev, p)
  /\ UNCHANGED <<midDragLoads, aux>>

TrackUrlChange ==
  /\ gesture' = GIdle
  /\ midDragLoads' = IF isDragging THEN midDragLoads \cup {started + 1}
                      ELSE midDragLoads
  /\ UNCHANGED aux

TrackLoadDone(l) ==
  /\ gesture' = GIdle
  /\ midDragLoads' = midDragLoads \ {l.id}
  /\ UNCHANGED aux

Next ==
  \/ \E l \in pending : LoadSuccess(l) /\ TrackLoadDone(l)
  \/ \E l \in pending : LoadError(l) /\ TrackLoadDone(l)
  \/ \E u \in Urls : UrlChange(u) /\ TrackUrlChange
  \/ \E p \in Parts : onPointerOver(p) /\ Track("over", p)
  \/ \E p \in Parts : onPointerOut(p) /\ Track("out", p)
  \/ \E p \in Parts, x \in Xs : handlePointerDown(p, x) /\ Track("down", p)
  \/ \E x \in Xs, f \in Forwards : handlePointerMove(x, f) /\ Track("move", "")
  \/ handlePointerUp /\ Track("up", "")
  \/ onStart /\ Track("start", "")
  \/ onEnd /\ Track("end", "")

Spec == Init /\ [][Next]_vars

\* ------------------------------------------------- the drag arithmetic
\* The pointer handlers again, from a loaded robot, with clientX on a finer
\* grid and the camera looking along or against the x and the z axis.
DragXs == {0, 50, 100, 250}
Directions == {<<1, 0, 0>>, <<-1, 0, 0>>, <<0, 0, 1>>, <<0, 0, -1>>}

\* The state the success callback of the load of url leaves, nothing pending.
LoadedIdle ==
  /\ url \in Urls
  /\ pending = {}
  /\ started = IF url = "u1" THEN 1 ELSE 2
  /\ robot = Some(clampJoints(Parsed([id |-> started, url |-> url]), Joints))
  /\ selectedJoint = Null
  /\ selectedMesh = Null
  /\ selectedJointColor = Null
  /\ isDragging = FALSE
  /\ isRotating = FALSE
  /\ lastMouseX = 0
  /\ hovered = Null
  /\ errors = 0
  /\ gesture = GIdle
  /\ midDragLoads = {}

DragInit ==
  /\ LoadedIdle
  /\ stroke = NoStroke
  /\ find = NoFind
  /\ life = NoLife

\* stroke: the drag since its pointer-down at x0 on a joint of value v0.
\*   x      clientX of the latest pointer-down or drag update
\*   sign   the direction the drag updates used (0: none has run yet)
\*   exact  no update has run into a limit and the direction never changed
\*   dot    axis . forward at the latest drag update, dir the direction it used
\*   steps  drag updates of an exact stroke so far: 0, 1, or 2 for two and more
\*   want   current + dx * sign of the latest drag update, brought into the
\*          limits (kept for limits with lower <= upper)
StrokeKeep == UNCHANGED <<stroke, gesture, midDragLoads, find, life>>

StrokeDown(p, clientX) ==
  /\ stroke' =
       IF Movable(p)
         THEN [active |-> TRUE, exact |-> TRUE, x0 |-> clientX,
               v0 |-> robot[1].joints[findURDFJointFromObject(p)[1]][1],
               sign |-> 0, x |-> clientX, dot |-> << >>, dir |-> 0, want |-> << >>,
               steps |-> 0]
         ELSE stroke
  /\ UNCHANGED <<gesture, midDragLoads, find, life>>

StrokeMove(clientX, forward) ==
  /\ stroke' =
       IF robot # Null /\ isDragging /\ selectedJoint # Null
         THEN LET name == selectedJoint[1]
                  lim == Limit(robot[1].src, name)
                  dir == getRotationDirection(name, forward)
                  wanted == robot[1].joints[name][1] + (clientX - lastMouseX) * dir
                  sign == IF Dot(Axis(name), forward) > 0 THEN -1 ELSE 1
                  candidate == robot[1].joints[name][1] + (clientX - lastMouseX) * sign
                  seen == [x |-> clientX, dot |-> <<Dot(Axis(name), forward)>>, dir |-> dir,
                           want |-> IF lim.lower > lim.upper THEN << >>
                                    ELSE IF candidate < lim.lower THEN <<lim.lower>>
                                    ELSE IF candidate > lim.upper THEN <<lim.upper>>
                                    ELSE <<candidate>>]
              IN IF /\ stroke.exact
                    /\ stroke.sign \in {0, dir}
                    /\ lim.lower <= wanted
                    /\ wanted <= lim.upper
                   THEN [stroke EXCEPT !.sign = dir, !.x = seen.x, !.dot = seen.dot,
                                       !.dir = seen.dir, !.want = seen.want,
                                       !.steps = IF @ = 0 THEN 1 ELSE 2]
                   ELSE [NoStroke EXCEPT !.active = TRUE, !.x = seen.x, !.dot = seen.dot,
                                         !.dir = seen.dir, !.want = seen.want]
         ELSE stroke
  /\ UNCHANGED <<gesture, midDragLoads, find, life>>

StrokeUp ==
  /\ stroke' = IF selectedMesh # Null THEN NoStroke ELSE stroke
  /\ UNCHANGED <<gesture, midDragLoads, find, life>>

DragNext ==
  \/ \E p \in Parts : onPointerOver(p) /\ StrokeKeep
  \/ \E p \in Parts : onPointerOut(p) /\ StrokeKeep
  \/ \E p \in Parts, x \in DragXs : handlePointerDown(p, x) /\ StrokeDown(p, x)
  \/ \E x \in DragXs, f \in Directions : handlePointerMove(x, f) /\ StrokeMove(x, f)
  \/ handlePointerUp /\ StrokeUp

DragSpec == DragInit /\ [][DragNext]_vars

\* ------------------------------------------- findURDFJointFromObject
\* The function's while loop, one iteration a step, over the robot's scene
\* graph and over every drawn hierarchy of MaxNodes objects (an object's
\* parent is null or an object made before it).
Kinds == {"URDFJoint", "URDFLink", "Mesh"}
ObjectNames == <<"o1", "o2", "o3", "o4", "o5">>
Objects == {ObjectNames[i] : i \in 1..MaxNodes}

DrawnTrees ==
  {[parent |-> par, type |-> typ] :
     par \in {f \in [Objects -> {Null} \cup {Some(m) : m \in Objects}] :
               \A i \in 1..MaxNodes :
                 f[ObjectNames[i]] # Null =>
                   \E k \in 1..(i - 1) : f[ObjectNames[i]] = Some(ObjectNames[k])},
     typ \in [Objects -> Kinds]}

SceneTree == [parent |-> [n \in Nodes |-> parent(n)], type |-> [n \in Nodes |-> type(n)]]

\* let current = startObj, before the first test of the loop.
FindEntry(kind, tree, startObj) ==
  [kind |-> kind, tree |-> tree, startObj |-> startObj, current |-> Some(startObj),
   pc |-> "loop", result |-> Null]

FindInit ==
  /\ LoadedIdle
  /\ stroke = NoStroke
  /\ life = NoLife
  /\ find \in {FindEntry("drawn", t, n) : t \in DrawnTrees, n \in Objects}
             \cup {FindEntry("scene", SceneTree, n) : n \in Nodes}

\* The loop taking any object that is no Mesh for the joint.
FindStepNearestNonMesh ==
  /\ find.pc = "loop"
  /\ find' =
       IF find.current = Null
         THEN [find EXCEPT !.pc = "done", !.result = Null]
         ELSE IF find.tree.type[find.current[1]] # "Mesh"
           THEN [find EXCEPT !.pc = "done", !.result = find.current]
           ELSE [find EXCEPT !.current = find.tree.parent[find.current[1]]]
  /\ UNCHANGED <<program, gesture, midDragLoads, stroke, life>>

\* One test of while (current) and one pass through its body, or the return
\* null after it.
FindStep ==
  /\ find.pc = "loop"
  /\ find' =
       IF find.current = Null
         THEN [find EXCEPT !.pc = "done", !.result = Null]
         ELSE IF find.tree.type[find.current[1]] = "URDFJoint"
           THEN [find EXCEPT !.pc = "done", !.result = find.current]
           ELSE [find EXCEPT !.current = find.tree.parent[find.current[1]]]
  /\ UNCHANGED <<program, gesture, midDragLoads, stroke, life>>

\* The next call, on an object of the same hierarchy.
FindCall ==
  /\ find.pc = "done"
  /\ \E n \in DOMAIN find.tree.parent :
       find' = FindEntry(find.kind, find.tree, n)
  /\ UNCHANGED <<program, gesture, midDragLoads, stroke, life>>

FindNext == FindStep \/ FindCall

FindSpec == FindInit /\ [][FindNext]_vars

\* ------------------------------------------------- the window listeners
\* The effect without dependencies that registers handlePointerMove and
\* handlePointerUp on the window.  A handler is named by the render that made
\* it: useCallback hands back the function of an earlier render until one of
\* its dependencies changes.  addEventListener ignores a function already
\* registered for the event, so the registered functions are a set.
\*   phase    "rendered": a render is committed and its effects have not run
\*            "cleaned":  the earlier effect's cleanup has run, the effect not yet
\*            "settled":  the effect has run
\*            "unmounted"
\*   cleanup  the function the effect's latest run returned, with the handlers
\*            it closes over
Rendered(n, move, up, was) ==
  [phase |-> "rendered", renders |-> n, handlePointerMove |-> move,
   handlePointerUp |-> up, cleanup |-> was.cleanup, mousemove |-> was.mousemove,
   mouseup |-> was.mouseup]

Unmounted(n) ==
  [phase |-> "unmounted", renders |-> n, handlePointerMove |-> 0,
   handlePointerUp |-> 0, cleanup |-> Null, mousemove |-> {}, mouseup |-> {}]

\* The first render with its effect run, as in Init.
LifeInit ==
  /\ url = "u1"
  /\ pending = {[id |-> 1, url |-> url]}
  /\ started = 1
  /\ robot = Null
  /\ selectedJoint = Null
  /\ selectedMesh = Null
  /\ selectedJointColor = Null
  /\ isDragging = FALSE
  /\ isRotating = FALSE
  /\ lastMouseX = 0
  /\ hovered = Null
  /\ errors = 0
  /\ gesture = GIdle
  /\ midDragLoads = {}
  /\ stroke = NoStroke
  /\ find = NoFind
  /\ life = [phase |-> "settled", renders |-> 1, handlePointerMove |-> 1,
             handlePointerUp |-> 1,
             cleanup |-> Some([handlePointerMove |-> 1, handlePointerUp |-> 1]),
             mousemove |-> {1}, mouseup |-> {1}]

LifeKeep == UNCHANGED <<program, gesture, midDragLoads, stroke, find>>

\* A render after a state change or a model swap: each handler is a new
\* function or the one of the render before, as its dependencies changed.
Rerender(moveChanged, upChanged) ==
  /\ life.phase = "settled"
  /\ life.renders < MaxRenders
  /\ life' = Rendered(life.renders + 1,
                      IF moveChanged THEN life.renders + 1 ELSE life.handlePointerMove,
                      IF upChanged THEN life.renders + 1 ELSE life.handlePointerUp,
                      life)
  /\ LifeKeep

\* The cleanup of the effect's earlier run: removeEventListener of the
\* handlers that run had registered.
EffectCleanup ==
  /\ life.phase = "rendered"
  /\ life.cleanup # Null
  /\ life' = [life EXCEPT !.phase = "cleaned",
                          !.mousemove = @ \ {life.cleanup[1].handlePointerMove},
                          !.mouseup = @ \ {life.cleanup[1].handlePointerUp},
                          !.cleanup = Null]
  /\ LifeKeep

\* The effect that returns no cleanup function.
EffectNoCleanup ==
  /\ life.phase \in {"rendered", "cleaned"}
  /\ life.cleanup = Null
  /\ life' = [life EXCEPT !.phase = "settled",
                          !.mousemove = @ \cup {life.handlePointerMove},
                          !.mouseup = @ \cup {life.handlePointerUp}]
  /\ LifeKeep

\* The effect: addEventListener of this render's handlers, and the cleanup
\* function returned.
Effect ==
  /\ life.phase \in {"rendered", "cleaned"}
  /\ life.cleanup = Null
  /\ life' = [life EXCEPT !.phase = "settled",
                          !.mousemove = @ \cup {life.handlePointerMove},
                          !.mouseup = @ \cup {life.handlePointerUp},
                          !.cleanup = Some([handlePointerMove |-> life.handlePointerMove,
                                            handlePointerUp |-> life.handlePointerUp])]
  /\ LifeKeep

\* Unmount: the cleanup of the effect's latest run, if it has run.
Unmount ==
  /\ life.phase \in {"rendered", "settled"}
  /\ life' = [Unmounted(life.renders) EXCEPT
               !.mousemove = IF life.cleanup = Null THEN life.mousemove
                             ELSE life.mousemove \ {life.cleanup[1].handlePointerMove},
               !.mouseup = IF life.cleanup = Null THEN life.mouseup
                           ELSE life.mouseup \ {life.cleanup[1].handlePointerUp}]
  /\ LifeKeep

\* The component mounted again: a first render with new handlers.
Mount ==
  /\ life.phase = "unmounted"
  /\ life.renders < MaxRenders
  /\ life' = Rendered(life.renders + 1, life.renders + 1, life.renders + 1, life)
  /\ LifeKeep

LifeNext ==
  \/ \E moveChanged \in BOOLEAN, upChanged \in BOOLEAN : Rerender(moveChanged, upChanged)
  \/ EffectCleanup
  \/ Effect
  \/ Unmount
  \/ Mount

LifeSpec == LifeInit /\ [][LifeNext]_vars

\* ---------------------------------------------------------------- claims
OnFixedJoint(p) ==
  LET joint == findURDFJointFromObject(p) IN joint # Null /\ Dof(joint[1]) = 0

\* The drag's pointer-up: handlePointerUp with a mesh selected.
DragEnd == selectedMesh # Null /\ handlePointerUp

\* The drag's pointer-down: handlePointerDown on a part of a movable joint.
DragBegin ==
  \E p \in Parts :
    hovered = Some(p) /\ Movable(p) /\ \E x \in Xs : handlePointerDown(p, x)

\* C1: with a model installed, every joint that has a value and whose limits
\* satisfy lower <= upper holds a value with lower <= value <= upper, after
\* the load and after every drag update.
JointsWithinLimits ==
  robot # Null =>
    \A j \in Joints :
      LET lim == Limit(robot[1].src, j)
          jv == robot[1].joints[j]
      IN (Len(jv) # 0 /\ lim.lower <= lim.upper) =>
           (lim.lower <= jv[1] /\ jv[1] <= lim.upper)

\* A drag update has run into the arm's upper limit.
WitnessDragClamped ==
  /\ robot # Null
  /\ robot[1].src = "u1"
  /\ isDragging
  /\ selectedJoint = Some("j_arm")
  /\ robot[1].joints["j_arm"] = <<Limit("u1", "j_arm").upper>>

\* C2: after pointer-over(P), pointer-down(P), any moves, overs and outs, and
\* the pointer-up, P shows the colour it showed before the pointer-over
\* highlighted it, also when P's pointer-out came during the drag.
DragRestoresColor ==
  (gesture.phase = "released" /\ robot # Null) =>
     Displayed(gesture.cur.part) = gesture.cur.orig

\* Such a drag has ended after the pointer left the part and a move came.
WitnessReleasedAfterExit ==
  /\ gesture.phase = "released"
  /\ hovered # Some(gesture.cur.part)
  /\ lastMouseX = 250

\* C3: isDragging and isRotating are never both true (a pointer-down while
\* the camera has started and not ended begins no drag).
DragOrbitExclusive == ~(isDragging /\ isRotating)

\* C4: orbit rotation is off from the pointer-down that begins a drag until
\* the pointer-up that ends it, and it comes back on in that pointer-up and
\* in no other step.
OrbitDisabledThroughDrag ==
  [][ /\ DragBegin => ~enableRotate'
      /\ (~enableRotate /\ enableRotate') => DragEnd
      /\ DragEnd => enableRotate' ]_vars

\* Mid-drag, the pointer off the part and moved, orbit rotation off.
WitnessOrbitOffMidDrag ==
  /\ isDragging
  /\ ~enableRotate
  /\ hovered = Null
  /\ lastMouseX = 250
  /\ gesture.phase = "drag"

\* C5: when the url changed during a drag, the install of the new model
\* leaves no joint and no mesh selected, no drag, no captured colour and no
\* part highlighted.
SwapDiscardsDrag ==
  [][\A l \in pending :
       (LoadSuccess(l) /\ l.id \in midDragLoads /\ l.id = started) =>
          /\ selectedJoint' = Null
          /\ selectedMesh' = Null
          /\ ~isDragging'
          /\ selectedJointColor' = Null
          /\ \A p \in Parts : getHexString(robot'[1].color[p]) # moveableHex]_vars

\* C6: once every load has completed with success, the url having changed at
\* least once, the model held is the one of the url configured last (a load
\* that was superseded in flight does not replace it).
LatestLoadWins ==
  (pending = {} /\ errors = 0 /\ started > 1) =>
     (robot # Null /\ robot[1].src = url)

\* C7: a pointer-down on a part under no joint leaves the selection, the
\* drag flag, the anchor, the captured colour and every colour as they were.
DownOffJointChangesNothing ==
  [][\A p \in Parts :
       ( /\ hovered = Some(p)
         /\ findURDFJointFromObject(p) = Null
         /\ \E x \in Xs : handlePointerDown(p, x) )
         => UNCHANGED <<selectedJoint, selectedMesh, isDragging, lastMouseX,
                        selectedJointColor, robot>>]_vars

\* The pointer is on the base, where such a pointer-down arrives.
WitnessOnBase ==
  /\ robot # Null
  /\ hovered = Some("base")
  /\ findURDFJointFromObject("base") = Null
  /\ selectedJoint = Null

\* C8: a pointer-down on a part whose joint has no value starts no drag and
\* gives no part the highlight colour.
DownOnFixedJointNoDrag ==
  [][\A p \in Parts :
       ( /\ hovered = Some(p)
         /\ OnFixedJoint(p)
         /\ \E x \in Xs : handlePointerDown(p, x) ) =>
          /\ UNCHANGED <<isDragging, selectedJoint, selectedMesh>>
          /\ \A q \in Parts : getHexString(robot'[1].color[q]) = moveableHex
                                  => Displayed(q) = moveableHex]_vars

\* The pointer is on the foot (hovered, colour captured, not highlighted).
WitnessOnFoot ==
  /\ robot # Null
  /\ hovered = Some("foot")
  /\ OnFixedJoint("foot")
  /\ ~isDragging
  /\ selectedJointColor = Some(Displayed("foot"))

\* C9: through over(A), out(A), over(B), out(B) on parts of two movable
\* joints with different colours, A shows its own colour again from out(A)
\* on, and B shows the highlight while hovered and its own colour after.
HoverPairRestores ==
  ( /\ robot # Null
    /\ gesture.phase \in {"hover", "exited"}
    /\ gesture.prev # NoHover
    /\ findURDFJointFromObject(gesture.prev.part)
         # findURDFJointFromObject(gesture.cur.part)
    /\ gesture.prev.orig # gesture.cur.orig ) =>
     /\ Displayed(gesture.prev.part) = gesture.prev.orig
     /\ Displayed(gesture.cur.part) =
          IF gesture.phase = "hover" THEN moveableHex ELSE gesture.cur.orig

\* Both hovers are over.
WitnessHoverPairDone ==
  /\ gesture.phase = "exited"
  /\ gesture.prev # NoHover
  /\ gesture.prev.part # gesture.cur.part
  /\ gesture.prev.orig # gesture.cur.orig

\* C10: a failing load of the configured url logs the failure, starts no
\* other load and leaves the viewer with no model.
FailedLoadLeavesViewerEmpty ==
  [][\A l \in pending :
       (LoadError(l) /\ l.id = started) =>
          /\ robot' = Null
          /\ errors' = errors + 1
          /\ pending' = pending \ {l}
          /\ started' = started]_vars

\* C11: a drag update leaves the selected joint at current + dx * sign, dx the
\* event's X minus the anchor, brought into [lower, upper] (for limits with
\* lower <= upper): lower when below, upper when above, itself when between.
DragUpdateSetsClampedValue ==
  (stroke.active /\ stroke.want # Null) =>
     robot[1].joints[selectedJoint[1]] = stroke.want

\* Limits [-100, 100], value 0, pointer-down at 0, then one update of
\* dx = +250 with sign +1 (candidate 250): the joint is at 100.
WitnessDragExample ==
  /\ robot # Null
  /\ Limit(robot[1].src, "j_arm") = [lower |-> -100, upper |-> 100]
  /\ selectedJoint = Some("j_arm")
  /\ isDragging
  /\ lastMouseX = 250
  /\ stroke.x = 250
  /\ stroke.dir = 1
  /\ stroke.want = <<100>>
  /\ robot[1].joints["j_arm"] = <<100>>

\* C12: a pointer-up with a joint selected leaves no drag, no joint and no
\* mesh selected, no captured colour, and orbit rotation enabled.
PointerUpEndsDrag ==
  [][(selectedJoint # Null /\ handlePointerUp) =>
       /\ ~isDragging'
       /\ selectedJoint' = Null
       /\ selectedMesh' = Null
       /\ selectedJointColor' = Null
       /\ enableRotate']_vars

\* A drag has just ended with the pointer still on the dragged part.
WitnessDragEnded ==
  /\ gesture.phase = "released"
  /\ hovered = Some(gesture.cur.part)
  /\ selectedJoint = Null
  /\ ~isDragging

\* The parent chain of object n in hierarchy t, n first (at most fuel long).
RECURSIVE Chain(_, _, _)
Chain(t, n, fuel) ==
  IF fuel = 0 THEN << >>
  ELSE IF t.parent[n] = Null THEN <<n>>
  ELSE <<n>> \o Chain(t, t.parent[n][1], fuel - 1)

\* The first URDFJoint on that chain, none when the chain has no joint.
FirstJointOnChain(t, n) ==
  LET chain == Chain(t, n, Cardinality(DOMAIN t.parent))
      at == {i \in 1..Len(chain) : t.type[chain[i]] = "URDFJoint"}
  IN IF at = {} THEN Null
     ELSE Some(chain[CHOOSE i \in at : \A k \in at : i <= k])

\* Objects the loop has still to look at.
FindRank(f) ==
  IF f.pc = "done" THEN 0
  ELSE IF f.current = Null THEN 1
  ELSE 1 + Len(Chain(f.tree, f.current[1], Cardinality(DOMAIN f.tree.parent)))

\* C13: a call of findURDFJointFromObject returns the first URDFJoint on the
\* parent chain of its object, the object included, and null when the chain
\* has none; every step of its loop brings the return nearer (it terminates),
\* and no step changes an object's parent or type.  On the robot's scene graph
\* the handlers' findURDFJointFromObject gives the same answer.
FindReturnsNearestJoint ==
  /\ [](find.pc = "done" =>
          /\ find.result = FirstJointOnChain(find.tree, find.startObj)
          /\ find.kind = "scene" => find.result = findURDFJointFromObject(find.startObj))
  /\ [][ /\ find'.tree = find.tree
         /\ find.pc = "loop" => FindRank(find') < FindRank(find) ]_vars

\* A call has returned the joint two objects above its object.
WitnessFoundGrandparent ==
  /\ find.pc = "done"
  /\ find.result # Null
  /\ find.tree.parent[find.startObj] # Null
  /\ find.tree.parent[find.startObj] # find.result
  /\ find.tree.parent[find.tree.parent[find.startObj][1]] = find.result

\* C14: a pointer-over while dragging or while the camera is rotating changes
\* no colour, no captured colour and nothing else of the interaction state; a
\* pointer-over gives a part the highlight only with no drag, no rotation and
\* a joint with a value above the part, and only to the part it is over.
PointerOverOnlyWhenIdle ==
  [][\A p \in Parts :
       (hovered = Null /\ hovered' = Some(p) /\ onPointerOver(p)) =>
          /\ (isDragging \/ isRotating) => UNCHANGED <<robot, interaction>>
          /\ \A q \in Parts :
               (Displayed(q) # moveableHex
                  /\ getHexString(robot'[1].color[q]) = moveableHex) =>
                 (q = p /\ ~isDragging /\ ~isRotating /\ Movable(p))]_vars

\* Mid-drag of the arm the pointer has come over the leg, which shows no
\* highlight.
WitnessOverMidDrag ==
  /\ robot # Null
  /\ isDragging
  /\ selectedMesh # Null
  /\ selectedMesh[1].part = "arm"
  /\ hovered = Some("leg")
  /\ Displayed("leg") # moveableHex

\* C15: a pointer-over on a part whose joint has no value changes no colour
\* and no field of the interaction state; the captured colour stays null.
HoverFixedJointNoOp ==
  [][\A p \in Parts :
       (hovered = Null /\ hovered' = Some(p) /\ OnFixedJoint(p) /\ onPointerOver(p)) =>
          /\ \A q \in Parts : getHexString(robot'[1].color[q]) = Displayed(q)
          /\ UNCHANGED interaction]_vars

\* C16: a pointer-out while dragging leaves every colour and the captured
\* colour as they were; a pointer-out with no colour captured leaves every
\* displayed colour as it was; a pointer-out changes no displayed colour but
\* that of its own part.
PointerOutOnlyRestores ==
  [][\A p \in Parts :
       (hovered = Some(p) /\ hovered' = Null /\ onPointerOut(p)) =>
          /\ isDragging => UNCHANGED <<robot, selectedJointColor>>
          /\ \A q \in Parts :
               getHexString(robot'[1].color[q]) # Displayed(q) =>
                 (q = p /\ ~isDragging /\ selectedJointColor # Null)]_vars

\* Mid-drag the pointer has left the dragged part: it keeps the highlight
\* and the captured colour is kept.
WitnessOutMidDrag ==
  /\ robot # Null
  /\ isDragging
  /\ hovered = Null
  /\ gesture.phase = "drag"
  /\ selectedJointColor = Some(gesture.cur.orig)
  /\ Displayed(gesture.cur.part) = moveableHex

\* C17: with a robot installed, a step that is no load callback changes a
\* joint value only as a drag update (handlePointerMove with a drag and a
\* joint selected) and then only the selected joint's; a pointer-move with no
\* drag changes no joint value and not the anchor.
JointValuesOnlyByDragUpdate ==
  [][ /\ (robot # Null /\ pending' = pending /\ robot'[1].joints # robot[1].joints) =>
           /\ isDragging
           /\ selectedJoint # Null
           /\ \A j \in Joints \ {selectedJoint[1]} :
                robot'[1].joints[j] = robot[1].joints[j]
           /\ \E x \in Xs, f \in Forwards : handlePointerMove(x, f)
      /\ (~isDragging /\ UNCHANGED <<hovered, pending, isRotating, selectedJoint>>) =>
           \A x \in Xs, f \in Forwards :
             handlePointerMove(x, f) => UNCHANGED <<robot, lastMouseX>> ]_vars

\* A drag has turned the arm to its lower limit and the leg is where the
\* load left it.
WitnessOnlyArmTurned ==
  /\ robot # Null
  /\ robot[1].src = "u1"
  /\ isDragging
  /\ selectedJoint = Some("j_arm")
  /\ robot[1].joints["j_arm"] = <<Limit("u1", "j_arm").lower>>
  /\ robot[1].joints["j_leg"] = <<Limit("u1", "j_leg").lower>>

\* C18: through a drag the anchor is the X of the latest pointer-down or drag
\* update, and while no update was clamped and the direction stayed the same
\* the joint has changed by (X of the latest update - X of the pointer-down)
\* * sign, however many updates the movement was split into.
DeltasFrameToFrame ==
  stroke.active =>
    /\ lastMouseX = stroke.x
    /\ stroke.exact =>
         robot[1].joints[selectedJoint[1]] =
           <<stroke.v0 + (stroke.x - stroke.x0) * stroke.sign>>

\* A drag of two or more unclamped updates that has moved the joint.
WitnessSplitDrag ==
  /\ stroke.active
  /\ stroke.exact
  /\ stroke.steps = 2
  /\ stroke.x # stroke.x0
  /\ robot[1].joints[selectedJoint[1]] # <<stroke.v0>>

\* C19: the direction a drag update uses is -1 when axis . forward is
\* positive, +1 when it is negative and +1 when it is zero, never another
\* number.
RotationDirectionIsMinusSign ==
  (stroke.active /\ stroke.dot # Null) =>
     /\ stroke.dir \in {1, -1}
     /\ stroke.dot[1] > 0 => stroke.dir = -1
     /\ stroke.dot[1] < 0 => stroke.dir = 1
     /\ stroke.dot[1] = 0 => stroke.dir = 1

\* Drag updates have run with the camera looking across the joint's axis
\* (axis . forward = 0): the fallback gave +1.
WitnessDirectionFallback ==
  /\ stroke.active
  /\ stroke.dot = <<0>>
  /\ stroke.dir = 1
  /\ stroke.steps = 2

\* C20: at most one mousemove handler and at most one mouseup handler of
\* the component are registered on the window at any time, and none once the
\* component is unmounted.
AtMostOneListenerPair ==
  /\ Cardinality(life.mousemove) <= 1
  /\ Cardinality(life.mouseup) <= 1
  /\ life.phase = "unmounted" => (life.mousemove = {} /\ life.mouseup = {})

\* After renders that changed both handlers, the effect has registered the
\* latest pair.
WitnessListenersReplaced ==
  /\ life.phase = "settled"
  /\ life.renders > 2
  /\ life.handlePointerMove = life.renders
  /\ life.mousemove = {life.renders}
  /\ life.mouseup = {life.handlePointerUp}
  /\ life.handlePointerUp > 1

\* C21: a pointer-up with no mesh selected changes nothing of the program's
\* state, and every pointer-up leaves no mesh selected, so a second
\* pointer-up after it changes nothing.
PointerUpIdempotent ==
  [][ /\ (selectedMesh = Null /\ handlePointerUp) => UNCHANGED program
      /\ (selectedMesh # Null /\ handlePointerUp) => selectedMesh' = Null ]_vars

\* A part is hovered and highlighted, its colour captured, after an earlier
\* drag, and no mesh is selected: a pointer-up here has to keep all of it.
WitnessHoverNoSelection ==
  /\ robot # Null
  /\ selectedMesh = Null
  /\ hovered # Null
  /\ gesture.phase = "hover"
  /\ selectedJointColor = Some(gesture.cur.orig)
  /\ Displayed(gesture.cur.part) = moveableHex
  /\ lastMouseX = 250

\* C22: isDragging is true exactly when a joint is selected and exactly when
\* a mesh is selected.
DragFlagsInStep ==
  /\ isDragging <=> selectedJoint # Null
  /\ isDragging <=> selectedMesh # Null

\* A drag goes on over a model swap: the three still agree, the mesh one of
\* the robot that was replaced.
WitnessDragOverSwap ==
  /\ isDragging
  /\ selectedJoint # Null
  /\ selectedMesh # Null
  /\ ~selectedMesh[1].installed

\* C23: with the robot of the first load (no model swap), at most one part
\* shows the highlight colour, that part hangs under a joint with a value,
\* and with no drag and no colour captured no part shows it.
HighlightNeverLeaks ==
  (robot # Null /\ started = 1) =>
     LET lit == {p \in Parts : Displayed(p) = moveableHex} IN
       /\ Cardinality(lit) <= 1
       /\ \A p \in lit : Movable(p)
       /\ (~isDragging /\ selectedJointColor = Null) => lit = {}
====
